---- MODULE Spec2Model ----
(***************************************************************************)
(* The used-car data pipelines: the cleaning runner (clean_car_data.py)    *)
(* and the reporting runner (run_car_report.py), as one state machine.     *)
(*                                                                         *)
(* A CSV file is a header and a grid of text cells.  A text is a sequence  *)
(* of one-character strings, so that stripping, lower-casing, comma        *)
(* removal and numeric parsing are computed as the code computes them.     *)
(* A number is a fixed-point integer counting tenths (Scale), so that a    *)
(* fractional value such as 2010.5 is distinct from 2010.                  *)
(***************************************************************************)
EXTENDS Integers, Sequences, FiniteSets, TLC

\* ------------------------------------------------------------------ bounds

\* Most data rows an input file holds.
MaxRows == 3

\* Longest text drawn as the input of the cell-level normalisation.
MaxLen == 4

\* ------------------------------------------------------------------- texts

Digits == {"0", "1", "2", "3", "4", "5", "6", "7", "8", "9"}

DigitVal(c) ==
    CASE c = "0" -> 0 [] c = "1" -> 1 [] c = "2" -> 2 [] c = "3" -> 3
      [] c = "4" -> 4 [] c = "5" -> 5 [] c = "6" -> 6 [] c = "7" -> 7
      [] c = "8" -> 8 [] c = "9" -> 9

DigitChar(d) ==
    CASE d = 0 -> "0" [] d = 1 -> "1" [] d = 2 -> "2" [] d = 3 -> "3"
      [] d = 4 -> "4" [] d = 5 -> "5" [] d = 6 -> "6" [] d = 7 -> "7"
      [] d = 8 -> "8" [] d = 9 -> "9"

\* str.lower() on one character (the letters the inputs use).
LowerChar(c) ==
    CASE c = "N" -> "n" [] c = "A" -> "a" [] c = "O" -> "o" [] c = "E" -> "e"
      [] c = "T" -> "t" [] c = "F" -> "f" [] c = "X" -> "x"
      [] OTHER -> c

Lower(s) == [i \in 1..Len(s) |-> LowerChar(s[i])]

RECURSIVE LStrip(_)
LStrip(s) == IF s # <<>> /\ Head(s) = " " THEN LStrip(Tail(s)) ELSE s

RECURSIVE RStrip(_)
RStrip(s) ==
    IF s # <<>> /\ s[Len(s)] = " " THEN RStrip(SubSeq(s, 1, Len(s) - 1)) ELSE s

\* str.strip()
Strip(s) == RStrip(LStrip(s))

NotComma(c) == c # ","

\* str.replace(',', '')
RemoveCommas(s) == SelectSeq(s, NotComma)

\* ----------------------------------------------------------------- numbers

\* One unit of a number is a tenth: the float 2010.5 is 20105.
Scale == 10

Num(n) == n * Scale

IsIntegral(v) == v % Scale = 0

AllDigits(s) == s # <<>> /\ \A i \in 1..Len(s) : s[i] \in Digits

RECURSIVE DigitsValue(_)
DigitsValue(s) ==
    IF s = <<>> THEN 0
    ELSE DigitsValue(SubSeq(s, 1, Len(s) - 1)) * 10 + DigitVal(s[Len(s)])

HasSign(s) == s # <<>> /\ Head(s) \in {"-", "+"}

Unsigned(s) == IF HasSign(s) THEN Tail(s) ELSE s

DotPositions(s) == {i \in 1..Len(s) : s[i] = "."}

\* A decimal integer literal: [sign] digits.
IsIntText(s) == AllDigits(Unsigned(s))

\* A decimal literal with a fractional part: [sign] digits "." digits.
IsFloatText(s) ==
    LET u == Unsigned(s)
        dots == DotPositions(u)
    IN  /\ Cardinality(dots) = 1
        /\ LET p == CHOOSE i \in dots : TRUE
           IN  /\ AllDigits(SubSeq(u, 1, p - 1))
               /\ AllDigits(SubSeq(u, p + 1, Len(u)))

IsNumericText(s) == IsIntText(s) \/ IsFloatText(s)

\* The value of a numeric literal, in tenths (the inputs carry at most one
\* fractional digit).
NumericValue(s) ==
    LET u == Unsigned(s)
        sign == IF s # <<>> /\ Head(s) = "-" THEN -1 ELSE 1
    IN  IF IsIntText(s) THEN sign * Num(DigitsValue(u))
        ELSE LET p == CHOOSE i \in DotPositions(u) : TRUE
             IN  sign * (Num(DigitsValue(SubSeq(u, 1, p - 1))) + DigitVal(u[p + 1]))

RECURSIVE NatText(_)
NatText(n) ==
    IF n < 10 THEN <<DigitChar(n)>> ELSE Append(NatText(n \div 10), DigitChar(n % 10))

Abs(v) == IF v < 0 THEN -v ELSE v

SignText(v) == IF v < 0 THEN <<"-">> ELSE <<>>

\* str() of an integer-typed value: 2020 -> "2020".
IntText(v) == SignText(v) \o NatText(Abs(v) \div Scale)

\* repr of a float64 value: 2020.0 -> "2020.0", 2010.5 -> "2010.5".
FloatText(v) ==
    SignText(v) \o NatText(Abs(v) \div Scale) \o <<".">> \o NatText(Abs(v) % Scale)

\* ------------------------------------------------------------------- cells

Null == [k |-> "null", v |-> 0, s |-> <<>>]

NumCell(v) == [k |-> "num", v |-> v, s |-> <<>>]

StrCell(s) == [k |-> "str", v |-> 0, s |-> s]

BoolCell(b) == [k |-> "bool", v |-> IF b THEN 1 ELSE 0, s |-> <<>>]

IsNull(c) == c.k = "null"

NotNull(c) == c.k # "null"

\* ------------------------------------------------------------------ tables

\* A table (DataFrame): the column names in order, each column's dtype, and
\* the rows, each a function from column name to cell.
EmptyTable == [cols |-> <<>>, dtypes |-> <<>>, rows |-> <<>>]

Range(s) == {s[i] : i \in 1..Len(s)}

HasCol(df, col) == col \in Range(df.cols)

NRows(df) == Len(df.rows)

Column(df, col) == [i \in 1..NRows(df) |-> df.rows[i][col]]

\* Series.notna().sum()
NonNullCount(df, col) == Cardinality({i \in 1..NRows(df) : NotNull(df.rows[i][col])})

\* Series.isnull().sum()
NullCount(df, col) == Cardinality({i \in 1..NRows(df) : IsNull(df.rows[i][col])})

\* df[col] = cells, with the column's new dtype
SetColumn(df, col, cells, dtype) ==
    [df EXCEPT !.rows = [i \in 1..NRows(df) |-> [df.rows[i] EXCEPT ![col] = cells[i]]],
               !.dtypes = [df.dtypes EXCEPT ![col] = dtype]]

\* ------------------------------------------------------------------- files

\* A CSV file on disk: whether the path exists, what its bytes are (a table,
\* nothing at all, rows of inconsistent width, bytes that do not decode), and
\* for a table its header and its grid of text cells.
NoFile == [exists |-> FALSE, content |-> "table", header |-> <<>>, rows |-> <<>>]

TableFile(header, rows) ==
    [exists |-> TRUE, content |-> "table", header |-> header, rows |-> rows]

BadFile(content) ==
    [exists |-> TRUE, content |-> content, header |-> <<>>, rows |-> <<>>]

\* The spellings pandas.read_csv reads as a missing value (its default
\* na_values, those the input alphabet can spell).
na_values ==
    { <<>>,
      <<"N", "A">>, <<"N", "/", "A">>, <<"n", "/", "a">>,
      <<"n", "a", "n">>, <<"N", "a", "N">>,
      <<"N", "o", "n", "e">>, <<"n", "u", "l", "l">>, <<"N", "U", "L", "L">> }

true_values == { <<"T", "r", "u", "e">>, <<"T", "R", "U", "E">>, <<"t", "r", "u", "e">> }

false_values ==
    { <<"F", "a", "l", "s", "e">>, <<"F", "A", "L", "S", "E">>, <<"f", "a", "l", "s", "e">> }

\* The dtype read_csv infers for one column of text cells: int64 when every
\* cell is an integer literal, float64 when every cell is a numeric literal
\* or missing, bool when every cell is a boolean literal, object otherwise
\* (and for a column of no rows).
InferDtype(texts) ==
    LET n == Len(texts)
        present == {i \in 1..n : texts[i] \notin na_values}
    IN  IF n = 0 THEN "object"
        ELSE IF \A i \in present : IsNumericText(Strip(texts[i]))
        THEN IF present = 1..n /\ \A i \in present : IsIntText(Strip(texts[i]))
             THEN "int64" ELSE "float64"
        ELSE IF \A i \in 1..n : texts[i] \in true_values \cup false_values
        THEN "bool"
        ELSE "object"

\* One parsed cell of a column of the given dtype.
ParseCell(text, dtype) ==
    IF text \in na_values THEN Null
    ELSE IF dtype \in {"int64", "float64"} THEN NumCell(NumericValue(Strip(text)))
    ELSE IF dtype = "bool" THEN BoolCell(text \in true_values)
    ELSE StrCell(text)

\* pd.read_csv on a well-formed file.
read_csv(f) ==
    LET colset == Range(f.header)
        pos(col) == CHOOSE j \in 1..Len(f.header) : f.header[j] = col
        texts(col) == [i \in 1..Len(f.rows) |-> f.rows[i][pos(col)]]
        dtypes == [col \in colset |-> InferDtype(texts(col))]
    IN  [cols |-> f.header,
         dtypes |-> dtypes,
         rows |-> [i \in 1..Len(f.rows) |->
                     [col \in colset |-> ParseCell(f.rows[i][pos(col)], dtypes[col])]]]

\* --------------------------------------------------- the cleaning transforms

placeholders ==
    { <<>>, <<" ">>, <<"N", "A">>, <<"N", "/", "A">>, <<"n", "a">>,
      <<"N", "o", "n", "e">>, <<"n", "o", "n", "e">>, <<"?">> }

\* lambda x: x.strip() if isinstance(x, str) else x
strip_cell(x) == IF x.k = "str" THEN StrCell(Strip(x.s)) ELSE x

\* The comparison without lower().
replace_placeholder_exact(x) ==
    IF x.k = "null" THEN Null
    ELSE IF x.k = "str" /\ x.s \in placeholders THEN Null
    ELSE x

replace_placeholder(x) ==
    IF x.k = "null" THEN Null
    ELSE IF x.k = "str"
    THEN IF x.s = <<>> THEN Null
         ELSE IF Lower(x.s) \in {Lower(p) : p \in placeholders} THEN Null
         ELSE x
    ELSE x

\* Step 3 on one cell: strip, then replace_placeholder.
standardize_cell(x) == replace_placeholder(strip_cell(x))

obj_cols(df) == {col \in Range(df.cols) : df.dtypes[col] = "object"}

\* Step 3: every object column is stripped and its placeholders nulled.
StandardizeStrings(df) ==
    [df EXCEPT !.rows = [i \in 1..NRows(df) |->
        [col \in Range(df.cols) |->
            IF col \in obj_cols(df) THEN standardize_cell(df.rows[i][col])
            ELSE df.rows[i][col]]]]

numeric_cols == <<"year", "selling_price", "km_driven">>

\* astype(str) of one cell of an object column.
astype_str(x) ==
    CASE x.k = "null" -> <<"n", "a", "n">>
      [] x.k = "str" -> x.s
      [] x.k = "num" -> FloatText(x.v)
      [] x.k = "bool" -> IF x.v = 1 THEN <<"T", "r", "u", "e">>
                         ELSE <<"F", "a", "l", "s", "e">>

\* The spellings step 4 replaces by NaN before parsing.
nan_spellings ==
    { <<>>, <<"n", "a", "n">>, <<"N", "o", "n", "e">>, <<"n", "o", "n", "e">> }

\* Step 4 on one cell of an object column: remove commas, strip, null the
\* residual spellings, then pd.to_numeric(errors='coerce').
coerce_cell(x) ==
    LET t == Strip(RemoveCommas(astype_str(x)))
    IN  IF t \in nan_spellings THEN Null
        ELSE IF IsNumericText(t) THEN NumCell(NumericValue(t))
        ELSE Null

\* Whether the text left of an object cell parses as a float (not an int).
coerce_is_float(x) ==
    LET t == Strip(RemoveCommas(astype_str(x)))
    IN  t \notin nan_spellings /\ IsFloatText(t)

\* The dtype pd.to_numeric gives a coerced object column: float64 once a
\* value is missing or written with a fraction, int64 otherwise.
to_numeric_dtype(cells, sources) ==
    IF \E i \in 1..Len(cells) : IsNull(cells[i]) \/ coerce_is_float(sources[i])
    THEN "float64" ELSE "int64"

\* Step 4 for one designated column.
ConvertColumn(df, col) ==
    IF df.dtypes[col] = "object"
    THEN LET cells == [i \in 1..NRows(df) |-> coerce_cell(df.rows[i][col])]
         IN  SetColumn(df, col, cells, to_numeric_dtype(cells, Column(df, col)))
    ELSE df

RECURSIVE ConvertColumns(_, _)
ConvertColumns(df, cols) ==
    IF cols = <<>> THEN df
    ELSE ConvertColumns(IF HasCol(df, Head(cols)) THEN ConvertColumn(df, Head(cols))
                        ELSE df,
                        Tail(cols))

\* Step 4: all designated columns.
ConvertNumeric(df) == ConvertColumns(df, numeric_cols)

None == <<>>

Some(x) == <<x>>

\* The count taken as the nulls left after the conversion.
ConversionIssues_nulls_after(before, after) ==
    [col \in Range(numeric_cols) |->
        IF HasCol(before, col) THEN Some(NullCount(after, col)) ELSE None]

\* before_nonnull - after_nonnull per designated column, None when absent.
ConversionIssues(before, after) ==
    [col \in Range(numeric_cols) |->
        IF HasCol(before, col)
        THEN Some(NonNullCount(before, col) - NonNullCount(after, col))
        ELSE None]

\* datetime.now().year
CurrentYear == 2024

\* The earliest year step 5 keeps.
MinYear == 1900

\* Assigning NaN into an int64 column makes it float64.
DtypeAfterNaN(df, col, cells) ==
    IF df.dtypes[col] = "int64" /\ \E i \in 1..Len(cells) : IsNull(cells[i])
    THEN "float64" ELSE df.dtypes[col]

\* df.loc[mask, col] = np.nan
SetNaN(df, col, mask) ==
    LET cells == [i \in 1..NRows(df) |-> IF mask[i] THEN Null ELSE df.rows[i][col]]
    IN  SetColumn(df, col, cells, DtypeAfterNaN(df, col, cells))

\* between(..., inclusive='neither')
year_invalid_exclusive(x) == ~(NotNull(x) /\ Num(MinYear) < x.v /\ x.v < Num(CurrentYear))

\* ~df['year'].between(1900, current_year) for one cell
year_invalid(x) == ~(NotNull(x) /\ Num(MinYear) <= x.v /\ x.v <= Num(CurrentYear))

\* ~(df['selling_price'] > 0) for one cell
price_invalid(x) == ~(NotNull(x) /\ x.v > 0)

\* ~(df['km_driven'] >= 0) for one cell
km_invalid(x) == ~(NotNull(x) /\ x.v >= 0)

\* Step 5.
ValidateYear(df) ==
    IF HasCol(df, "year")
    THEN SetNaN(df, "year", [i \in 1..NRows(df) |-> year_invalid(df.rows[i]["year"])])
    ELSE df

EnforcePrice(df) ==
    IF HasCol(df, "selling_price")
    THEN SetNaN(df, "selling_price",
                [i \in 1..NRows(df) |-> price_invalid(df.rows[i]["selling_price"])])
    ELSE df

EnforceKm(df) ==
    IF HasCol(df, "km_driven")
    THEN SetNaN(df, "km_driven",
                [i \in 1..NRows(df) |-> km_invalid(df.rows[i]["km_driven"])])
    ELSE df

\* Step 6.
EnforceRanges(df) == EnforceKm(EnforcePrice(df))

\* The rows whose flag in keep is set, in order.
RECURSIVE FilterRows(_, _)
FilterRows(rows, keep) ==
    IF rows = <<>> THEN <<>>
    ELSE IF Head(keep) THEN <<Head(rows)>> \o FilterRows(Tail(rows), Tail(keep))
    ELSE FilterRows(Tail(rows), Tail(keep))

\* df.duplicated(keep='first'): a row equal in all columns to an earlier one
\* (missing values compare equal).
duplicated(df) ==
    [i \in 1..NRows(df) |-> \E j \in 1..(i - 1) : df.rows[j] = df.rows[i]]

\* The count with keep=False: every member of a group of equal rows.
duplicate_count_keep_false(df) ==
    Cardinality({i \in 1..NRows(df) : \E j \in 1..NRows(df) : j # i /\ df.rows[j] = df.rows[i]})

\* df.duplicated(keep='first').sum()
duplicate_count(df) == Cardinality({i \in 1..NRows(df) : duplicated(df)[i]})

\* df.drop_duplicates(keep='last')
drop_duplicates_keep_last(df) ==
    [df EXCEPT !.rows =
        FilterRows(df.rows,
                   [i \in 1..NRows(df) |->
                       ~\E j \in (i + 1)..NRows(df) : df.rows[j] = df.rows[i]])]

\* Step 7: df.drop_duplicates(keep='first')
drop_duplicates(df) ==
    [df EXCEPT !.rows = FilterRows(df.rows, [i \in 1..NRows(df) |-> ~duplicated(df)[i]])]

critical_cols(df) == {col \in Range(numeric_cols) : HasCol(df, col)}

\* df.dropna(subset=critical_cols, how='all')
dropna_how_all(df) ==
    [df EXCEPT !.rows =
        FilterRows(df.rows,
                   [i \in 1..NRows(df) |->
                       critical_cols(df) = {} \/
                       \E col \in critical_cols(df) : NotNull(df.rows[i][col])])]

\* Step 8: df.dropna(subset=critical_cols)
dropna(df) ==
    [df EXCEPT !.rows =
        FilterRows(df.rows,
                   [i \in 1..NRows(df) |->
                       \A col \in critical_cols(df) : NotNull(df.rows[i][col])])]

\* int(x) of a number: truncation toward zero.
TruncToInt(v) == IF v >= 0 THEN v \div Scale ELSE -((-v) \div Scale)

\* lambda y: int(current_year - y) if pd.notna(y) else pd.NA
age_of(y) == IF NotNull(y) THEN NumCell(Num(TruncToInt(Num(CurrentYear) - y.v))) ELSE Null

\* Step 9: df['age'] = ..., as Int64; a new column goes last, an existing
\* one is overwritten in place.
AddAge(df) ==
    IF HasCol(df, "year")
    THEN LET colset == Range(df.cols) \cup {"age"}
         IN  [cols |-> IF HasCol(df, "age") THEN df.cols ELSE Append(df.cols, "age"),
              dtypes |-> [col \in colset |-> IF col = "age" THEN "Int64" ELSE df.dtypes[col]],
              rows |-> [i \in 1..NRows(df) |->
                          [col \in colset |->
                              IF col = "age" THEN age_of(df.rows[i]["year"])
                              ELSE df.rows[i][col]]]]
    ELSE df

low_card_cols == {"fuel", "seller_type", "transmission", "owner"}

\* Step 10: astype('category') for the low-cardinality columns present.
ToCategory(df) ==
    [df EXCEPT !.dtypes = [col \in Range(df.cols) |->
        IF col \in low_card_cols THEN "category" ELSE df.dtypes[col]]]

\* Whether a designated column is narrowed to Int64: it has a non-null
\* value and every non-null value is whole.
narrowable(df, col) ==
    LET non_null == {i \in 1..NRows(df) : NotNull(df.rows[i][col])}
    IN  non_null # {} /\ \A i \in non_null : IsIntegral(df.rows[i][col].v)

\* The narrowing after step 10.
NarrowToInt64(df) ==
    [df EXCEPT !.dtypes = [col \in Range(df.cols) |->
        IF col \in Range(numeric_cols) /\ narrowable(df, col) THEN "Int64"
        ELSE df.dtypes[col]]]

\* One cell as to_csv writes it (a categorical column of numbers does not
\* occur: the categorical columns of the inputs are text).
FormatCell(x, dtype) ==
    CASE x.k = "null" -> <<>>
      [] x.k = "str" -> x.s
      [] x.k = "bool" -> IF x.v = 1 THEN <<"T", "r", "u", "e">>
                         ELSE <<"F", "a", "l", "s", "e">>
      [] x.k = "num" -> IF dtype \in {"int64", "Int64"} THEN IntText(x.v)
                        ELSE FloatText(x.v)

FormatRows(df) ==
    [i \in 1..NRows(df) |->
        [j \in 1..Len(df.cols) |-> FormatCell(df.rows[i][df.cols[j]], df.dtypes[df.cols[j]])]]

\* Step 11: df.to_csv(path, index=False)
to_csv(df) == TableFile(df.cols, FormatRows(df))

\* df.head(10)
PreviewRows == 10

Min(a, b) == IF a < b THEN a ELSE b

head(df) == [df EXCEPT !.rows = SubSeq(df.rows, 1, Min(PreviewRows, NRows(df)))]

\* ------------------------------------------------------ the report functions

categorical_dtypes == {"bool", "category", "object"}

numeric_dtypes == {"int64", "float64", "Int64"}

\* classify_columns: the column names of each class, in column order.
IsCategoricalCol(df, col) == df.dtypes[col] \in categorical_dtypes

IsNumericalCol(df, col) ==
    df.dtypes[col] \notin categorical_dtypes /\ df.dtypes[col] \in numeric_dtypes

\* The names of cols that are in keep, in order.
RECURSIVE InOrder(_, _)
InOrder(cols, keep) ==
    IF cols = <<>> THEN <<>>
    ELSE IF Head(cols) \in keep THEN <<Head(cols)>> \o InOrder(Tail(cols), keep)
    ELSE InOrder(Tail(cols), keep)

categorical_columns(df) ==
    InOrder(df.cols, {col \in Range(df.cols) : IsCategoricalCol(df, col)})

numerical_columns(df) ==
    InOrder(df.cols, {col \in Range(df.cols) : IsNumericalCol(df, col)})

\* get_missing_values_info
missing_per_column(df) == [col \in Range(df.cols) |-> NullCount(df, col)]

has_missing(df) == \E col \in Range(df.cols) : missing_per_column(df)[col] > 0

\* A selection that takes bool for a number.
number_cols_with_bool(df) ==
    {col \in Range(df.cols) : df.dtypes[col] \in {"int64", "float64", "Int64", "bool"}}

\* df.select_dtypes(include=[np.number]): the number-typed columns (bool is
\* not one).
number_cols(df) == {col \in Range(df.cols) : df.dtypes[col] \in numeric_dtypes}

ColumnValues(df, col) == {df.rows[i][col].v : i \in {j \in 1..NRows(df) : NotNull(df.rows[j][col])}}

SetMin(S) == CHOOSE x \in S : \A y \in S : x <= y

SetMax(S) == CHOOSE x \in S : \A y \in S : x >= y

\* describe() of one number column, made serializable.  count is the number
\* of non-null values; min and max are undefined (NaN, hence None) when there
\* is none (_convert_value turns NaN into None).  The mean, the deviation and the quartiles are undefined in the
\* same case and are not carried.
describe_column(df, col) ==
    LET n == NonNullCount(df, col)
    IN  [count |-> Some(n),
         min |-> IF n > 0 THEN Some(SetMin(ColumnValues(df, col))) ELSE None,
         max |-> IF n > 0 THEN Some(SetMax(ColumnValues(df, col))) ELSE None]

\* numeric_summary_to_serializable: {} without number columns, else one
\* entry per number column.
numeric_summary(df) == [col \in number_cols(df) |-> describe_column(df, col)]

make_report(df) ==
    [shape |-> [rows |-> NRows(df), columns |-> Len(df.cols)],
     columns |-> df.cols,
     dtypes |-> df.dtypes,
     categorical_columns |-> categorical_columns(df),
     numerical_columns |-> numerical_columns(df),
     missing_values_per_column |-> missing_per_column(df),
     has_missing |-> has_missing(df),
     duplicate_count |-> duplicate_count(df),
     has_duplicates |-> duplicate_count(df) > 0,
     numeric_summary |-> numeric_summary(df)]

NoReport == [shape |-> [rows |-> 0, columns |-> 0]]

\* _format_value_for_md of a statistic: None is "NA".
format_value_for_md(v) == IF v = None THEN <<"N", "A">> ELSE FloatText(v[1])

stat_order == <<"count", "min", "max">>

\* save_markdown_report: the document, section by section.
markdown_of(rep) ==
    << [section |-> "title", body |-> <<>>],
       [section |-> "shape", body |-> <<rep.shape.rows, rep.shape.columns>>],
       [section |-> "columns", body |-> [j \in 1..Len(rep.columns) |->
                                            <<rep.columns[j], rep.dtypes[rep.columns[j]]>>]],
       [section |-> "categorical", body |-> rep.categorical_columns],
       [section |-> "numerical", body |-> rep.numerical_columns],
       [section |-> "missing", body |-> [j \in 1..Len(rep.columns) |->
                                            <<rep.columns[j],
                                              rep.missing_values_per_column[rep.columns[j]]>>]],
       [section |-> "duplicates", body |-> <<rep.duplicate_count, rep.has_duplicates>>],
       [section |-> "numeric_summary",
        body |-> [col \in DOMAIN rep.numeric_summary |->
                     [k \in 1..Len(stat_order) |->
                         <<stat_order[k],
                           format_value_for_md(rep.numeric_summary[col][stat_order[k]])>>]]],
       [section |-> "note", body |-> <<>>] >>

\* -------------------------------------------------------------- exceptions

\* What pd.read_csv raises on a file, "none" when it parses.
read_csv_error(f) ==
    CASE f.content = "empty" -> "EmptyDataError"
      [] f.content = "malformed" -> "ParserError"
      [] f.content = "undecodable" -> "UnicodeDecodeError"
      [] OTHER -> "none"

Exc(kind, msg, step) == [kind |-> kind, msg |-> msg, step |-> step]

\* The load step of the cleaning runner: the path check, then read_csv bare.
clean_load_error(f) ==
    IF ~f.exists THEN Some(Exc("FileNotFoundError", "CSV file not found at path", "load"))
    ELSE IF read_csv_error(f) # "none"
    THEN Some(Exc(read_csv_error(f), "raised by pandas.read_csv", "load"))
    ELSE None

\* load_csv without its re-raising clauses.
load_csv_error_unwrapped(f) ==
    IF clean_load_error(f) = None THEN None
    ELSE Some([clean_load_error(f)[1] EXCEPT !.step = "r_load"])

\* load_csv of the reporting runner: the path check, then read_csv with its
\* errors re-raised as RuntimeError.
load_csv_error(f) ==
    IF ~f.exists THEN Some(Exc("FileNotFoundError", "CSV file not found at path", "r_load"))
    ELSE CASE read_csv_error(f) = "EmptyDataError" ->
                Some(Exc("RuntimeError", "The file appears to be empty", "r_load"))
           [] read_csv_error(f) = "ParserError" ->
                Some(Exc("RuntimeError", "Pandas failed to parse the CSV", "r_load"))
           [] read_csv_error(f) = "none" -> None
           [] OTHER ->
                Some(Exc("RuntimeError", "An unexpected error occurred when loading the CSV",
                         "r_load"))

\* The classes `except Exception` catches: every exception a step raises.
exception_kinds ==
    {"FileNotFoundError", "EmptyDataError", "ParserError", "UnicodeDecodeError",
     "RuntimeError", "OSError", "MemoryError"}

\* A handler that names the I/O errors only.
caught_io_only(kind) == kind \in {"FileNotFoundError", "OSError"}

caught(kind) == kind \in exception_kinds

\* ------------------------------------------------------------------ inputs

\* Row texts of the input files, per header.
YearTexts ==
    { <<"1", "8", "9", "9">>, <<"1", "9", "0", "0">>, <<"2", "0", "2", "4">>,
      <<"2", "0", "2", "5">>, <<"2", "0", "1", "0", ".", "5">>, <<"2", ",", "0", "2", "0">>,
      <<"x">>, <<"?">>, <<>> }

PriceTexts == { <<"0">>, <<"-", "5">>, <<"1", "0", "0">>, <<"1", ",", "2", "0", "0">> }

KmTexts == { <<"-", "1">>, <<"0">> }

NameTexts ==
    { <<" ", "n", "a", " ">>, <<"x">>, <<" ", "x">>, <<"?">>, <<" ", "n", "u", "l", "l">> }

FuelTexts == { <<"p">>, <<"d", " ">> }

FlagTexts == { <<"T", "r", "u", "e">>, <<"F", "a", "l", "s", "e">> }

RowsOf(header) ==
    CASE header = <<"year">> -> {<<y>> : y \in YearTexts}
      [] header = <<"selling_price", "km_driven">> ->
            {<<p, k>> : p \in PriceTexts, k \in KmTexts}
      [] header = <<"name", "year">> ->
            {<<n, y>> : n \in NameTexts, y \in {<<"2", "0", "2", "0">>, <<>>}}
      [] header = <<"year", "age">> ->
            {<<y, a>> : y \in {<<"2", "0", "2", "0">>, <<"2", "0", "2", "1">>},
                        a \in {<<"1">>, <<"2">>}}
      [] header = <<"fuel", "km_driven">> ->
            {<<f, k>> : f \in FuelTexts, k \in {<<"5">>, <<"7", ".", "5">>, <<"-", "1">>}}
      [] header = <<"flag", "selling_price">> ->
            {<<b, p>> : b \in FlagTexts, p \in {<<"1", "0", "0">>, <<"x">>}}
      [] header = <<"year", "selling_price", "km_driven">> ->
            {<<y, p, k>> : y \in {<<"2", "0", "2", "0">>, <<"x">>},
                           p \in {<<"1", "0", "0">>, <<>>},
                           k \in {<<"5">>}}

Headers ==
    { <<"year">>, <<"selling_price", "km_driven">>, <<"name", "year">>, <<"year", "age">>,
      <<"fuel", "km_driven">>, <<"flag", "selling_price">>,
      <<"year", "selling_price", "km_driven">> }

TableFiles ==
    {TableFile(h, rows) : h \in Headers, rows \in {<<>>}} \cup
    UNION { UNION { {TableFile(h, rows) : rows \in [1..n -> RowsOf(h)]} : n \in 1..MaxRows }
            : h \in Headers }

\* What may lie at CSV_PATH.
InputFiles ==
    {NoFile, BadFile("empty"), BadFile("malformed"), BadFile("undecodable")} \cup TableFiles

\* The characters of the texts drawn for the cell-level normalisation.
Alphabet == {" ", "N", "n", "A", "a", "/", "?", "o", "e", "x"}

Texts == UNION {[1..n -> Alphabet] : n \in 0..MaxLen}

\* The cells of an object column: text, missing, and (in a column of mixed
\* types) a number.
CellInputs == {StrCell(t) : t \in Texts} \cup {Null, NumCell(Num(7))}

\* ------------------------------------------------------------------- state

VARIABLES
    pipeline,            \* "clean" | "report" | "cell": which script runs
    pc,                  \* the step about to run
    run,                 \* 1, or 2 when the cleaner runs on its own output
    file,                \* the file at CSV_PATH
    df,                  \* the working DataFrame
    pre,                 \* df on entry to the step that ran last
    rows_before,
    conversion_issues,
    duplicates_removed,
    dropped_rows,        \* dropped_rows_due_to_missing_critical_fields
    cleaned,             \* the file at CLEANED_PATH: None until written
    report,              \* the report dict of the reporting runner
    markdown,            \* the markdown file: None until written
    exc,                 \* the exception in flight: None when there is none
    output,              \* the result record
    cell,                \* the input of the cell-level normalisation
    normalized           \* its result: None until computed

vars ==
    <<pipeline, pc, run, file, df, pre, rows_before, conversion_issues,
      duplicates_removed, dropped_rows, cleaned, report, markdown, exc, output,
      cell, normalized>>

locals == <<rows_before, conversion_issues, duplicates_removed, dropped_rows>>

cellVars == <<cell, normalized>>

reportVars == <<report, markdown>>

NoOutput == [status |-> "unset", error_message |-> None]

NoIssues == [col \in Range(numeric_cols) |-> None]

Start(p) == IF p = "clean" THEN "load" ELSE "r_load"

InitWith(p, f) ==
    /\ pipeline = p
    /\ pc = Start(p)
    /\ run = 1
    /\ file = f
    /\ df = EmptyTable
    /\ pre = EmptyTable
    /\ rows_before = 0
    /\ conversion_issues = NoIssues
    /\ duplicates_removed = 0
    /\ dropped_rows = 0
    /\ cleaned = None
    /\ report = NoReport
    /\ markdown = None
    /\ exc = None
    /\ output = NoOutput

Init ==
    /\ \E p \in {"clean", "report"} : \E f \in InputFiles : InitWith(p, f)
    /\ cell = Null
    /\ normalized = None

\* ------------------------------------------------------ the cleaning runner

AtClean(step) == pipeline = "clean" /\ pc = step /\ exc = None

\* A transform step: df becomes next, pre remembers df.
Transform(step, after, next) ==
    /\ AtClean(step)
    /\ pre' = df
    /\ df' = next
    /\ pc' = after

clean_success ==
    [status |-> "success",
     error_message |-> None,
     cleaned_path |-> Some("CLEANED_PATH"),
     rows_before |-> Some(rows_before),
     rows_after |-> Some(NRows(df)),
     duplicates_removed |-> Some(duplicates_removed),
     dropped_rows_due_to_missing_critical_fields |-> Some(dropped_rows),
     conversion_issues |-> Some(conversion_issues),
     preview |-> Some(to_csv(head(df))),
     dtypes_after |-> Some(df.dtypes)]

clean_error(e) ==
    [status |-> "error",
     error_message |-> Some(e),
     cleaned_path |-> None,
     rows_before |-> None,
     rows_after |-> None,
     duplicates_removed |-> None,
     dropped_rows_due_to_missing_critical_fields |-> None,
     preview |-> None,
     dtypes_after |-> None]

report_error(e) ==
    [status |-> "error",
     error_message |-> Some(e),
     report_path |-> None,
     report_snippet |-> None,
     report_summary |-> None]

\* The except clause of either runner: a caught exception becomes the error
\* record; one it does not catch leaves the script.
Handle(e) ==
    /\ exc' = Some(e)
    /\ IF caught(e.kind)
       THEN /\ output' = IF pipeline = "clean" THEN clean_error(e) ELSE report_error(e)
            /\ pc' = "done"
       ELSE /\ output' = output
            /\ pc' = "crashed"

\* Steps 1 and 2: the path check, read_csv, rows_before.
Load ==
    /\ AtClean("load")
    /\ IF clean_load_error(file) # None
       THEN /\ Handle(clean_load_error(file)[1])
            /\ UNCHANGED <<df, pre, rows_before>>
       ELSE /\ df' = read_csv(file)
            /\ pre' = read_csv(file)
            /\ rows_before' = Len(file.rows)
            /\ pc' = "standardize"
            /\ UNCHANGED <<exc, output>>
    /\ UNCHANGED <<pipeline, run, file, conversion_issues, duplicates_removed, dropped_rows,
                   cleaned, reportVars, cellVars>>

Standardize ==
    /\ Transform("standardize", "convert", StandardizeStrings(df))
    /\ UNCHANGED <<pipeline, run, file, locals, cleaned, exc, output, reportVars, cellVars>>

Convert ==
    /\ Transform("convert", "validate_year", ConvertNumeric(df))
    /\ conversion_issues' = ConversionIssues(df, ConvertNumeric(df))
    /\ UNCHANGED <<pipeline, run, file, rows_before, duplicates_removed, dropped_rows,
                   cleaned, exc, output, reportVars, cellVars>>

ValidateYearStep ==
    /\ Transform("validate_year", "enforce", ValidateYear(df))
    /\ UNCHANGED <<pipeline, run, file, locals, cleaned, exc, output, reportVars, cellVars>>

EnforceStep ==
    /\ Transform("enforce", "dedup", EnforceRanges(df))
    /\ UNCHANGED <<pipeline, run, file, locals, cleaned, exc, output, reportVars, cellVars>>

DropDuplicates ==
    /\ Transform("dedup", "dropna", drop_duplicates(df))
    /\ duplicates_removed' = duplicate_count(df)
    /\ UNCHANGED <<pipeline, run, file, rows_before, conversion_issues, dropped_rows,
                   cleaned, exc, output, reportVars, cellVars>>

DropMissing ==
    /\ Transform("dropna", "age", dropna(df))
    /\ dropped_rows' = NRows(df) - NRows(dropna(df))
    /\ UNCHANGED <<pipeline, run, file, rows_before, conversion_issues, duplicates_removed,
                   cleaned, exc, output, reportVars, cellVars>>

DeriveAge ==
    /\ Transform("age", "category", AddAge(df))
    /\ UNCHANGED <<pipeline, run, file, locals, cleaned, exc, output, reportVars, cellVars>>

Categorize ==
    /\ Transform("category", "narrow", ToCategory(df))
    /\ UNCHANGED <<pipeline, run, file, locals, cleaned, exc, output, reportVars, cellVars>>

Narrow ==
    /\ Transform("narrow", "save", NarrowToInt64(df))
    /\ UNCHANGED <<pipeline, run, file, locals, cleaned, exc, output, reportVars, cellVars>>

\* Step 11: the cleaned file is written.
Save ==
    /\ AtClean("save")
    /\ cleaned' = Some(to_csv(df))
    /\ pc' = "emit"
    /\ UNCHANGED <<pipeline, run, file, df, pre, locals, exc, output, reportVars, cellVars>>

\* Step 12: the success record.
Emit ==
    /\ AtClean("emit")
    /\ output' = clean_success
    /\ pc' = "done"
    /\ UNCHANGED <<pipeline, run, file, df, pre, locals, cleaned, exc, reportVars, cellVars>>

\* The cleaner run again, on the file it wrote.
Rerun ==
    /\ pipeline = "clean"
    /\ pc = "done"
    /\ run = 1
    /\ output.status = "success"
    /\ file' = cleaned[1]
    /\ run' = 2
    /\ pc' = "load"
    /\ df' = EmptyTable
    /\ pre' = EmptyTable
    /\ rows_before' = 0
    /\ conversion_issues' = NoIssues
    /\ duplicates_removed' = 0
    /\ dropped_rows' = 0
    /\ cleaned' = None
    /\ output' = NoOutput
    /\ UNCHANGED <<pipeline, exc, reportVars, cellVars>>

\* ----------------------------------------------------- the reporting runner

AtReport(step) == pipeline = "report" /\ pc = step /\ exc = None

\* load_csv
RLoad ==
    /\ AtReport("r_load")
    /\ IF load_csv_error(file) # None
       THEN /\ Handle(load_csv_error(file)[1])
            /\ UNCHANGED <<df, pre>>
       ELSE /\ df' = read_csv(file)
            /\ pre' = read_csv(file)
            /\ pc' = "r_make"
            /\ UNCHANGED <<exc, output>>
    /\ UNCHANGED <<pipeline, run, file, locals, cleaned, reportVars, cellVars>>

RMake ==
    /\ AtReport("r_make")
    /\ report' = make_report(df)
    /\ pc' = "r_print"
    /\ UNCHANGED <<pipeline, run, file, df, pre, locals, cleaned, markdown, exc, output,
                   cellVars>>

\* print_report writes to the console only.
RPrint ==
    /\ AtReport("r_print")
    /\ pc' = "r_save"
    /\ UNCHANGED <<pipeline, run, file, df, pre, locals, cleaned, reportVars, exc, output,
                   cellVars>>

\* save_markdown_report
RSave ==
    /\ AtReport("r_save")
    /\ markdown' = Some(markdown_of(report))
    /\ pc' = "r_emit"
    /\ UNCHANGED <<pipeline, run, file, df, pre, locals, cleaned, report, exc, output,
                   cellVars>>

report_success(snippet) ==
    [status |-> "success",
     error_message |-> None,
     report_path |-> Some("reports/car_data_report.md"),
     report_snippet |-> Some(snippet),
     report_summary |->
        Some([shape |-> report.shape,
              dtypes |-> report.dtypes,
              categorical_columns |-> report.categorical_columns,
              numerical_columns |-> report.numerical_columns,
              missing_values_per_column |-> report.missing_values_per_column,
              has_missing |-> report.has_missing,
              duplicate_count |-> report.duplicate_count,
              has_duplicates |-> report.has_duplicates,
              numeric_summary |-> report.numeric_summary])]

\* The snippet is read back (the documents here are shorter than the 4000
\* characters kept); a failure to read it is swallowed and leaves ''.
REmit ==
    /\ AtReport("r_emit")
    /\ \E readable \in BOOLEAN :
          output' = report_success(IF readable THEN markdown[1] ELSE <<>>)
    /\ pc' = "done"
    /\ UNCHANGED <<pipeline, run, file, df, pre, locals, cleaned, reportVars, exc, cellVars>>

\* ---------------------------------------------------------------- failures

\* The steps after the load in which an exception may be raised.
raising_steps ==
    {"standardize", "convert", "validate_year", "enforce", "dedup", "dropna", "age",
     "category", "narrow", "save", "emit", "r_make", "r_print", "r_save"}

\* A write fails with OSError; anything else with what the interpreter
\* raises under pressure.
failure_kind(step) == IF step \in {"save", "r_save"} THEN "OSError" ELSE "MemoryError"

\* A step inside the try block raises.
Raise ==
    /\ pipeline \in {"clean", "report"}
    /\ pc \in raising_steps
    /\ exc = None
    /\ Handle(Exc(failure_kind(pc), "raised in step", pc))
    /\ UNCHANGED <<pipeline, run, file, df, pre, locals, cleaned, reportVars, cellVars>>

\* ------------------------------------------------- cell-level normalisation

InitCell ==
    /\ InitWith("cell", NoFile)
    /\ cell \in CellInputs
    /\ normalized = None

\* Step 3 applied to one cell of an object column.
ApplyStandardize ==
    /\ pipeline = "cell"
    /\ normalized = None
    /\ normalized' = Some(standardize_cell(cell))
    /\ UNCHANGED <<pipeline, pc, run, file, df, pre, locals, cleaned, reportVars, exc,
                   output, cell>>

\* ----------------------------------------------------------- specifications

Next ==
    \/ Load \/ Standardize \/ Convert \/ ValidateYearStep \/ EnforceStep
    \/ DropDuplicates \/ DropMissing \/ DeriveAge \/ Categorize \/ Narrow
    \/ Save \/ Emit \/ Rerun
    \/ RLoad \/ RMake \/ RPrint \/ RSave \/ REmit
    \/ Raise

Spec == Init /\ [][Next]_vars

NextCell == ApplyStandardize

SpecCell == InitCell /\ [][NextCell]_vars

\* ------------------------------------------------------------- properties

CleanSucceeded == pipeline = "clean" /\ pc = "done" /\ output.status = "success"

ReportSucceeded == pipeline = "report" /\ pc = "done" /\ output.status = "success"

\* C1: on every successful cleaning run the reported metrics satisfy
\* rows_after + duplicates_removed + dropped_rows_due_to_missing_critical_fields
\* = rows_before, where rows_before is the row count of the table as loaded
\* and rows_after the row count of the table written out.
C1_MetricsAddUp ==
    CleanSucceeded =>
        /\ output.rows_before = Some(NRows(read_csv(file)))
        /\ output.rows_after = Some(Len(cleaned[1].rows))
        /\ output.rows_after[1] + output.duplicates_removed[1]
             + output.dropped_rows_due_to_missing_critical_fields[1]
           = output.rows_before[1]

\* A run that removed a duplicate, dropped a row and still wrote one.
C1_Witness ==
    /\ CleanSucceeded
    /\ output.duplicates_removed[1] >= 1
    /\ output.dropped_rows_due_to_missing_critical_fields[1] >= 1
    /\ output.rows_after[1] >= 1

DataFields == DOMAIN output \ {"status", "error_message"}

\* C2: in both runners no failure escapes: a run never ends outside the
\* result record; a run in which a step raised ends with status "error", a
\* non-null error_message and every data field null or absent; a run in which
\* no step raised ends with status "success" and error_message null.
C2_ErrorEnvelope ==
    /\ pc # "crashed"
    /\ (pipeline \in {"clean", "report"} /\ pc = "done") =>
          IF exc # None
          THEN /\ output.status = "error"
               /\ output.error_message # None
               /\ \A f \in DataFields : output[f] = None
          ELSE /\ output.status = "success"
               /\ output.error_message = None

\* A reporting run whose write failed, ended in the error record.
C2_Witness ==
    /\ pipeline = "report"
    /\ pc = "done"
    /\ exc # None
    /\ exc[1].step = "r_save"
    /\ output.status = "error"

\* The loader's failure causes, as the specification names them.
cause_of(f) ==
    IF ~f.exists THEN "NotFound"
    ELSE IF f.content = "empty" THEN "Empty"
    ELSE "Malformed"

UnloadableFiles == {NoFile, BadFile("empty"), BadFile("malformed"), BadFile("undecodable")}

LoaderError(p, f) == IF p = "clean" THEN clean_load_error(f) ELSE load_csv_error(f)

LoadFailed == pc = "done" /\ exc # None /\ exc[1].step \in {"load", "r_load"}

generic_kinds == {"RuntimeError", "Exception"}

\* The kind raised for the file is raised for no file of another cause.
KindTellsCause(p, f, kind) ==
    \A g \in UnloadableFiles :
        cause_of(g) # cause_of(f) => LoaderError(p, g)[1].kind # kind

\* C3 as stated: the three causes NotFound, Empty and Malformed are reported
\* as pairwise distinct error kinds, none of them a generic failure.
C3_DistinctKinds ==
    LoadFailed =>
        /\ exc[1].kind \notin generic_kinds
        /\ KindTellsCause(pipeline, file, exc[1].kind)

\* C3 as amended: NotFound has its own kind, FileNotFoundError, in both
\* runners; load_csv of the reporting runner raises Empty and Malformed alike
\* as RuntimeError, told apart by the message only; the load step of the
\* cleaning runner lets the parser's own kinds through, which tell the causes
\* apart.
C3_KindsAsRaised ==
    LoadFailed =>
        /\ (cause_of(file) = "NotFound") <=> (exc[1].kind = "FileNotFoundError")
        /\ (pipeline = "report" /\ cause_of(file) # "NotFound") =>
              /\ exc[1].kind = "RuntimeError"
              /\ \A g \in UnloadableFiles :
                    cause_of(g) # cause_of(file) =>
                        load_csv_error(g)[1].msg # exc[1].msg
        /\ (pipeline = "clean") =>
              /\ exc[1].kind \notin generic_kinds
              /\ KindTellsCause("clean", file, exc[1].kind)

\* The reporting runner on an empty file: RuntimeError.
C3_Witness ==
    /\ pipeline = "report"
    /\ LoadFailed
    /\ file.content = "empty"
    /\ exc[1].kind = "RuntimeError"

\* C4: cleaning the table a cleaning run produced removes no duplicate,
\* drops no row and leaves the row count unchanged.
C4_Idempotent ==
    (CleanSucceeded /\ run = 2) =>
        /\ output.duplicates_removed = Some(0)
        /\ output.dropped_rows_due_to_missing_critical_fields = Some(0)
        /\ output.rows_after = output.rows_before

AfterStep(step) == pipeline = "clean" /\ pc = step /\ exc = None

\* The cells of a column that were not null before the step and are after.
Nulled(before, after, col) ==
    {i \in 1..NRows(before) : NotNull(before.rows[i][col]) /\ IsNull(after.rows[i][col])}

\* C5: for each designated numeric column present, conversion_issues[col] is
\* the number of cells that were non-null on entry to the coercion step and
\* did not parse; a cell already null on entry is never counted, and "1,200"
\* parses to 1200 and is not counted.
C5_ConversionIssues ==
    AfterStep("validate_year") =>
        /\ NRows(df) = NRows(pre)
        /\ \A col \in Range(numeric_cols) :
              IF HasCol(pre, col)
              THEN /\ conversion_issues[col] = Some(Cardinality(Nulled(pre, df, col)))
                   /\ \A i \in 1..NRows(pre) :
                         /\ IsNull(pre.rows[i][col]) => IsNull(df.rows[i][col])
                         /\ pre.rows[i][col] = StrCell(<<"1", ",", "2", "0", "0">>) =>
                               df.rows[i][col] = NumCell(Num(1200))
              ELSE conversion_issues[col] = None

\* A column with a cell that failed to parse, a cell null on entry and a
\* comma-separated cell that parsed.
C5_Witness ==
    /\ AfterStep("validate_year")
    /\ \E col \in Range(numeric_cols) :
          /\ HasCol(pre, col)
          /\ conversion_issues[col] = Some(1)
          /\ \E i, j \in 1..NRows(pre) :
                /\ IsNull(pre.rows[i][col])
                /\ pre.rows[j][col].k = "str" /\ df.rows[j][col].k = "num"

\* The cells of a column after a validation: unchanged where the value is
\* in valid, null elsewhere.
NulledExactly(before, after, col, valid) ==
    HasCol(before, col) =>
        \A i \in 1..NRows(before) :
            IF NotNull(before.rows[i][col]) /\ before.rows[i][col].v \in valid
            THEN after.rows[i][col] = before.rows[i][col]
            ELSE IsNull(after.rows[i][col])

OtherColumnsKept(before, after, changed) ==
    /\ after.cols = before.cols
    /\ NRows(after) = NRows(before)
    /\ \A i \in 1..NRows(before) : \A col \in Range(before.cols) \ changed :
          after.rows[i][col] = before.rows[i][col]

\* The values of a column's cells.
ValuesIn(T, col) == {T.rows[i][col].v : i \in 1..NRows(T)}

\* C6: validation nulls exactly the out-of-domain values: a year is kept iff
\* it lies in [1900, current year] (1899 and current year + 1 become null,
\* 1900 and the current year stay), a price iff it is > 0, a distance iff it
\* is >= 0; kept values and the row count are unchanged.
C6_DomainValidation ==
    /\ AfterStep("enforce") =>
          /\ NulledExactly(pre, df, "year",
                           {v \in ValuesIn(pre, "year") : 19000 <= v /\ v <= Num(CurrentYear)})
          /\ OtherColumnsKept(pre, df, {"year"})
          /\ HasCol(pre, "year") => \A i \in 1..NRows(pre) :
                /\ pre.rows[i]["year"] \in {NumCell(18990), NumCell(Num(CurrentYear + 1))}
                      => IsNull(df.rows[i]["year"])
                /\ pre.rows[i]["year"] \in {NumCell(19000), NumCell(Num(CurrentYear))}
                      => df.rows[i]["year"] = pre.rows[i]["year"]
    /\ AfterStep("dedup") =>
          /\ NulledExactly(pre, df, "selling_price",
                           {v \in ValuesIn(pre, "selling_price") : v > 0})
          /\ NulledExactly(pre, df, "km_driven",
                           {v \in ValuesIn(pre, "km_driven") : v >= 0})
          /\ OtherColumnsKept(pre, df, {"selling_price", "km_driven"})

\* A year column holding 1899 (nulled) and the current year (kept).
C6_Witness ==
    /\ AfterStep("enforce")
    /\ HasCol(pre, "year")
    /\ \E i, j \in 1..NRows(pre) :
          /\ pre.rows[i]["year"] = NumCell(18990) /\ IsNull(df.rows[i]["year"])
          /\ pre.rows[j]["year"] = NumCell(Num(CurrentYear))
          /\ df.rows[j]["year"] = NumCell(Num(CurrentYear))

SameRow(T, i, j) == \A col \in Range(T.cols) : T.rows[i][col] = T.rows[j][col]

\* The rows with no equal row before them.
FirstOccurrences(T) == {i \in 1..NRows(T) : \A j \in 1..(i - 1) : ~SameRow(T, j, i)}

Rank(K, i) == Cardinality({k \in K : k <= i})

\* after holds exactly the first occurrences of before, in their order.
KeepsFirstsInOrder(before, after) ==
    /\ NRows(after) = Cardinality(FirstOccurrences(before))
    /\ \A i \in FirstOccurrences(before) :
          after.rows[Rank(FirstOccurrences(before), i)] = before.rows[i]

MissingCritical(T) ==
    {i \in 1..NRows(T) : \E col \in Range(numeric_cols) :
        HasCol(T, col) /\ IsNull(T.rows[i][col])}

\* C7: duplicate removal runs on the table as normalisation, coercion and
\* validation left it; duplicates_removed is the number of its rows equal in
\* all columns to an earlier row; exactly the first occurrences stay, in
\* their order; and the critical-field drop counts rows of the deduplicated
\* table only.
C7_DuplicateRemoval ==
    /\ AfterStep("dropna") =>
          /\ run = 1 =>
                pre = EnforceRanges(ValidateYear(ConvertNumeric(
                          StandardizeStrings(read_csv(file)))))
          /\ duplicates_removed = NRows(pre) - Cardinality(FirstOccurrences(pre))
          /\ KeepsFirstsInOrder(pre, df)
    /\ AfterStep("age") =>
          /\ FirstOccurrences(pre) = 1..NRows(pre)
          /\ dropped_rows = Cardinality(MissingCritical(pre))
          /\ duplicates_removed + NRows(pre) = rows_before

\* Three rows, the third equal to the first: one removed, two kept.
C7_Witness ==
    /\ AfterStep("dropna")
    /\ NRows(pre) = 3
    /\ pre.rows[1] = pre.rows[3]
    /\ pre.rows[1] # pre.rows[2]
    /\ duplicates_removed = 1
    /\ NRows(df) = 2

ReportedColumns == Range(report.columns)

\* C8 as stated: the numeric summary has an entry for a column iff the
\* column is in the numerical column list and has a non-null value, and a
\* summarised column's count is its number of non-null cells.
C8_SummaryOmitsAllNull ==
    ReportSucceeded =>
        \A col \in ReportedColumns :
            /\ col \in DOMAIN report.numeric_summary <=>
                  (col \in Range(report.numerical_columns) /\ NonNullCount(df, col) >= 1)
            /\ col \in DOMAIN report.numeric_summary =>
                  report.numeric_summary[col].count = Some(NonNullCount(df, col))

\* C8 as amended: the numeric summary has an entry for a column iff the
\* column is in the numerical column list; a numerical column whose cells
\* are all null is summarised with count 0 and its other statistics null;
\* a summarised column's count is its number of non-null cells.
C8_SummaryOfNumericColumns ==
    ReportSucceeded =>
        /\ output.report_summary[1].numeric_summary = report.numeric_summary
        /\ output.report_summary[1].numerical_columns = report.numerical_columns
        /\ \A col \in ReportedColumns :
              /\ col \in DOMAIN report.numeric_summary <=>
                    col \in Range(report.numerical_columns)
              /\ col \in DOMAIN report.numeric_summary =>
                    /\ report.numeric_summary[col].count = Some(NonNullCount(df, col))
                    /\ NonNullCount(df, col) = 0 =>
                          /\ report.numeric_summary[col].min = None
                          /\ report.numeric_summary[col].max = None

\* A report of a table with rows and a number column that is all null.
C8_Witness ==
    /\ ReportSucceeded
    /\ NRows(df) >= 2
    /\ \E col \in Range(report.numerical_columns) :
          /\ NonNullCount(df, col) = 0
          /\ report.numeric_summary[col].count = Some(0)

\* The text with the spaces at both ends removed, said by what it is: the
\* slice with only spaces outside it that neither starts nor ends in one.
Trimmed(s) ==
    CHOOSE t \in {SubSeq(s, a, b) : a \in 1..(Len(s) + 1), b \in 0..Len(s)} :
        /\ \E a \in 1..(Len(s) + 1), b \in 0..Len(s) :
              /\ t = SubSeq(s, a, b)
              /\ \A i \in 1..(a - 1) : s[i] = " "
              /\ \A i \in (b + 1)..Len(s) : s[i] = " "
        /\ t = <<>> \/ (t[1] # " " /\ t[Len(t)] # " ")

CasePairs == {<<"N", "n">>, <<"A", "a">>, <<"O", "o">>, <<"E", "e">>}

SameLetter(c, d) == c = d \/ <<c, d>> \in CasePairs \/ <<d, c>> \in CasePairs

EqualIgnoringCase(t, p) ==
    Len(t) = Len(p) /\ \A i \in 1..Len(t) : SameLetter(t[i], p[i])

PlaceholderSpellings ==
    { <<>>, <<"N", "A">>, <<"N", "/", "A">>, <<"N", "o", "n", "e">>, <<"?">> }

IsPlaceholder(t) == \E p \in PlaceholderSpellings : EqualIgnoringCase(t, p)

\* C9: a string cell of a string column becomes null iff its trimmed value,
\* compared without regard to case, is one of "", "NA", "N/A", "None", "?";
\* any other string cell becomes its trimmed value; a cell that is not a
\* string is unchanged.
C9_PlaceholderNormalization ==
    normalized # None =>
        IF cell.k = "str"
        THEN IF IsPlaceholder(Trimmed(cell.s)) THEN normalized[1] = Null
             ELSE normalized[1] = StrCell(Trimmed(cell.s))
        ELSE normalized[1] = cell

\* " Na " became null.
C9_Witness ==
    /\ cell = StrCell(<<" ", "N", "a", " ">>)
    /\ normalized = Some(Null)

Designated(T) == {col \in Range(numeric_cols) : HasCol(T, col)}

NoMissingCritical(T) ==
    \A i \in 1..NRows(T) : \A col \in Designated(T) : NotNull(T.rows[i][col])

\* C10 as stated: no row written by a successful cleaning run is null in a
\* designated numeric column, and with a year column every row's age is
\* non-null and equal to the current year minus its year.
C10_AgeIsDifference ==
    CleanSucceeded =>
        /\ NoMissingCritical(df)
        /\ HasCol(df, "year") => \A i \in 1..NRows(df) :
              /\ NotNull(df.rows[i]["age"])
              /\ df.rows[i]["age"].v = Num(CurrentYear) - df.rows[i]["year"].v

\* C10 as amended: no row written by a successful cleaning run is null in a
\* designated numeric column, and with a year column every row's age is
\* non-null and is the current year minus its year with the fraction cut
\* off: a whole number a with 0 <= (current year - year) - a < 1, hence the
\* difference itself when the year is whole.
C10_AgeIsTruncatedDifference ==
    CleanSucceeded =>
        /\ NoMissingCritical(df)
        /\ cleaned = Some(to_csv(df))
        /\ HasCol(df, "year") => \A i \in 1..NRows(df) :
              LET a == df.rows[i]["age"]
                  d == Num(CurrentYear) - df.rows[i]["year"].v
              IN  /\ NotNull(a)
                  /\ a.v % 10 = 0
                  /\ 0 <= d - a.v /\ d - a.v < 10
                  /\ df.rows[i]["year"].v % 10 = 0 => a.v = d

\* A written table with a whole year and a fractional one.
C10_Witness ==
    /\ CleanSucceeded
    /\ HasCol(df, "year")
    /\ \E i, j \in 1..NRows(df) :
          /\ df.rows[i]["year"] = NumCell(20105) /\ df.rows[i]["age"] = NumCell(130)
          /\ df.rows[j]["year"] = NumCell(19000) /\ df.rows[j]["age"] = NumCell(1240)

====
